---- MODULE Spec2Model ----
(***************************************************************************)
(* Model of the Sanskrit documents scraper: the crawler (crawler.py) with  *)
(* its document store, and the change-detection ledger (delta.py).  Each   *)
(* behaviour is one execution of one of the two scripts over a shared      *)
(* download directory.                                                     *)
(***************************************************************************)
EXTENDS Integers, Sequences, FiniteSets, TLC

VARIABLES script, site, crawler, visited, stack, gets, recent, crawling_records,
          files, dl, docs, dcall, clock, xcall, metadata_records, flow

vars == <<script, site, crawler, visited, stack, gets, recent, crawling_records,
          files, dl, docs, dcall, clock, xcall, metadata_records, flow>>

None == "None"

(***************************************************************************)
(* Bounds of the model.                                                    *)
(***************************************************************************)
MaxLinks == 2
MaxClock == 3
MaxPages == 2

(***************************************************************************)
(* The URL universe.                                                       *)
(*   seed  https://root.org/index.html                                     *)
(*   page  https://root.org/sub/page                                       *)
(*   docA  https://root.org/a/doc.pdf                                      *)
(*   docB  https://other.org/b/doc.pdf?dl=1   (same basename as docA)       *)
(*   ext   https://other.org/x.html                                        *)
(***************************************************************************)
URLs == {"seed", "page", "docA", "docB", "ext"}

TARGET_SITES == <<"seed", "ext">>

Host(u) == IF u \in {"ext", "docB"} THEN "other.org" ELSE "root.org"

\* os.path.basename(urlparse(url).path), as the stem followed by its extension.
Basename(u) ==
    CASE u = "seed" -> <<"index", ".html">>
      [] u = "page" -> <<"page">>
      [] u = "docA" -> <<"doc", ".pdf">>
      [] u = "docB" -> <<"doc", ".pdf">>
      [] u = "ext"  -> <<"x", ".html">>

\* os.path.splitext(basename)[1]
Ext(b) == IF Len(b) >= 2 THEN b[Len(b)] ELSE ""

\* urlparse(url).query
Query(u) == IF u = "docB" THEN "?dl=1" ELSE ""

\* url.lower().endswith(suffix)
UrlEndsWith(u, suffix) == Query(u) = "" /\ Ext(Basename(u)) = suffix

\* hashlib.sha256(url).hexdigest()[:8], taken as collision free on the universe.
Fingerprint(u) ==
    CASE u = "seed" -> "5eed0001"
      [] u = "page" -> "9a6e0002"
      [] u = "docA" -> "d0ca0003"
      [] u = "docB" -> "d0cb0004"
      [] u = "ext"  -> "e8700005"

(***************************************************************************)
(* The file system: a function from paths (sequences of name parts under   *)
(* output/files) to files.  A file holds the chunks written so far; "done" *)
(* records that the stream that produced it was read to its end.           *)
(***************************************************************************)
\* The bodies a server sends, as sequences of chunks.
Bodies == {<<>>, <<"x">>, <<"y">>}

\* The bodies sent to the crawler, which looks at their length and at their
\* first bytes.
CrawlBodies == {<<>>, <<"x">>, <<"%PDF">>}

Exists(fs, p) == p \in DOMAIN fs

WriteFile(fs, p, f) == [q \in (DOMAIN fs) \cup {p} |-> IF q = p THEN f ELSE fs[q]]

RemoveFile(fs, p) == [q \in (DOMAIN fs) \ {p} |-> fs[q]]

\* os.rename / os.replace
RenameFile(fs, a, b) == WriteFile(RemoveFile(fs, a), b, fs[a])

\* os.path.getsize
GetSize(fs, p) == Len(fs[p].data)

\* "src" is the URL whose response the file holds.
EmptyFile(u) == [data |-> <<>>, done |-> FALSE, src |-> u]

(***************************************************************************)
(* Crawler: naming of stored documents.                                    *)
(***************************************************************************)
\* The basename kept by _download_file, "document.pdf" / "document.epub" when
\* the URL path has no basename or no extension.
StoreBasename(u) ==
    LET b == Basename(u) IN
    IF b = <<>> \/ Ext(b) = ""
    THEN IF UrlEndsWith(u, ".pdf") THEN <<"document", ".pdf">>
         ELSE IF UrlEndsWith(u, ".epub") THEN <<"document", ".epub">>
         ELSE <<"document", ".pdf">>
    ELSE b

\* Mutant of LocalPath: the name carries no fingerprint.
LocalPathPlain(u) == StoreBasename(u)

\* local_name = f"{fname_hash}_{basename}"; local_path = DOWNLOAD_DIR/local_name
LocalPath(u) == <<Fingerprint(u)>> \o StoreBasename(u)

\* temp_path = local_path + ".tmp"
TempPath(p) == p \o <<".tmp">>

(***************************************************************************)
(* Crawler: robots.txt.  The state of the RobotFileParser after            *)
(* Crawler.__init__: rp.read() sets disallow_all on 401/403, allow_all on  *)
(* another 4xx, parses a 200 body (which sets last_checked), and leaves    *)
(* the parser untouched on a 5xx answer or when it raises (the exception   *)
(* is caught and logged by __init__).                                      *)
(***************************************************************************)
RuleSets == {{}, {"page", "docA"}}

RobotsParser(fetch, da, aa, lc, rules) ==
    [fetch |-> fetch, disallow_all |-> da, allow_all |-> aa,
     last_checked |-> lc, rules |-> rules]

ReadRobots ==
    {RobotsParser("200", FALSE, FALSE, TRUE, r) : r \in RuleSets}
    \cup {RobotsParser("403", TRUE, FALSE, FALSE, {}),
          RobotsParser("404", FALSE, TRUE, FALSE, {}),
          RobotsParser("500", FALSE, FALSE, FALSE, {}),
          RobotsParser("unreachable", FALSE, FALSE, FALSE, {})}

\* RobotFileParser.can_fetch("*", url)
CanFetch(rp, u) ==
    IF rp.disallow_all THEN FALSE
    ELSE IF rp.allow_all THEN TRUE
    ELSE IF ~rp.last_checked THEN FALSE
    ELSE u \notin rp.rules

(***************************************************************************)
(* Crawler: crawl(), _process_html_page(), _download_file().               *)
(* The recursion of crawl() is an explicit stack of frames; a frame is one *)
(* activation of crawl(url).                                               *)
(***************************************************************************)
ContentTypes == {"text/html", "application/pdf", "application/msword"}

\* The Content-Type the server of the universe may declare for each URL: the
\* two index pages are HTML, the extension-less page is HTML or a PDF, docA is a
\* PDF that may be served as one or as text/html, docB may be anything.
ServerTypes(u) ==
    CASE u \in {"seed", "ext"} -> {"text/html"}
      [] u = "page" -> {"text/html", "application/pdf"}
      [] u = "docA" -> {"application/pdf", "text/html"}
      [] u = "docB" -> ContentTypes

\* The bodies the server of the universe may send for each URL: docA is a PDF
\* or an error page, the others never start with the PDF signature.
ServerBodies(u) == IF u = "docA" THEN CrawlBodies ELSE {<<>>, <<"x">>}

\* The declared Content-Length, in chunks; 0 stands for a header that is
\* absent or "0" (both are falsy at the duplicate check).
ContentLengths == 0..2

\* The anchors of a page, already resolved by urljoin.
RECURSIVE SeqsUpTo(_, _)
SeqsUpTo(S, n) ==
    IF n = 0 THEN {<<>>}
    ELSE LET shorter == SeqsUpTo(S, n - 1) IN
         shorter \cup {Append(q, x) : q \in {t \in shorter : Len(t) = n - 1}, x \in S}

\* The URLs that the anchors of the page served for u may lead to: the seed
\* page links to every other URL, the inner page back to the seed and to docA,
\* the other site's index to the two documents, and the listing served for
\* docB to docA.
Anchors(u) ==
    CASE u = "seed" -> URLs \ {"seed"}
      [] u = "page" -> {"seed", "docA"}
      [] u = "ext"  -> {"docA", "docB"}
      [] OTHER      -> {"docA"}

LinkSeqs(u) == SeqsUpTo(Anchors(u), MaxLinks)

NoResponse == [ctype |-> None, cl |-> 0]

\* One activation of crawl(url): where it stands (pc), the response headers it
\* holds, the anchors of its page that the first loop has yet to visit, and the
\* collected document_links that the second loop has yet to visit.
\* "result" is how the activation ended, "error" what made it fail, "reports"
\* the number of logger.error calls made for that failure and "warned" that the
\* stored file failed the signature check;
\* "revisit" records that the page held a link to a URL that was already
\* visited; "overtaken" holds the pairs <<d, u>> of a collected document link d
\* and a page link u found after it, when crawl(u) was entered while d waited
\* in document_links and neither had been visited.
Frame(u) == [url |-> u, pc |-> "call", resp |-> NoResponse,
             links |-> <<>>, document_links |-> <<>>,
             result |-> None, error |-> None, reports |-> 0, warned |-> FALSE,
             revisit |-> FALSE, overtaken |-> {}]

\* The activation has ended with the given result; it returns in CrawlReturn.
Ended(f, result) == [f EXCEPT !.pc = "return", !.result = result]

\* The logger.error calls made for one failure: an exception raised inside the
\* download block of _download_file is logged by the inner handler, re-raised
\* and logged again by the outer one.
Reports(error) == IF error \in {"storage", "stream"} THEN 2 ELSE 1

\* The activation has ended on an error, which was logged.
Failed(f, error) == [Ended(f, "failed") EXCEPT !.error = error, !.reports = Reports(error)]

Top == stack[Len(stack)]

Pop == SubSeq(stack, 1, Len(stack) - 1)

SetTop(f) == [stack EXCEPT ![Len(stack)] = f]

\* Mutant of MarkVisited: the URL is never added to the visited set.
MarkVisitedNever(v, u) == v

\* Mutant of RobotsDisallows: the robots check is dropped.
RobotsDisallowsNever(rp, u) == FALSE

\* Mutant of AlreadyVisited: the visited set is never consulted.
AlreadyVisitedNever(v, u) == FALSE

AlreadyVisited(v, u) == u \in v

MarkVisited(v, u) == v \cup {u}

RobotsDisallows(rp, u) == CanFetch(rp, u) = FALSE

IsDocument(ctype, u) ==
    \/ ctype \in {"application/pdf", "application/epub+zip"}
    \/ UrlEndsWith(u, ".pdf")
    \/ UrlEndsWith(u, ".epub")

\* Mutant of AlreadyDownloaded: the header is compared unparsed, as a string,
\* and never equals the size.
AlreadyDownloadedUnparsed(fs, p, cl) == Exists(fs, p) /\ cl # 0 /\ FALSE

\* os.path.exists(local_path) and content_length and getsize == content_length
AlreadyDownloaded(fs, p, cl) == Exists(fs, p) /\ cl # 0 /\ GetSize(fs, p) = cl

\* Mutant of StreamPath: the body is streamed to the final path.
StreamPathFinal(p) == p

\* The path the response body is streamed to.
StreamPath(p) == TempPath(p)

NoDownload == [who |-> None]

NoCrawler == [base_url |-> None]

ZeroGets == [u \in URLs |-> 0]

CrawlCommon == UNCHANGED <<script, site, crawler, crawling_records, docs, dcall, clock,
                           xcall, metadata_records, flow>>

AtCrawl(pc) ==
    /\ script = "crawler"
    /\ stack # <<>>
    /\ Top.pc = pc

\* crawl(url) returns early: url is in self.visited, or robots.txt disallows it
CrawlSkipped ==
    /\ AtCrawl("call")
    /\ \/ AlreadyVisited(visited, Top.url) /\ visited' = visited
       \/ /\ ~AlreadyVisited(visited, Top.url)
          /\ RobotsDisallows(crawler.robots, Top.url)
          /\ visited' = MarkVisited(visited, Top.url)
    /\ stack' = SetTop(Ended(Top, "skipped"))
    /\ UNCHANGED <<gets, recent, files, dl>>
    /\ CrawlCommon

CrawlIssuesGet ==
    /\ AtCrawl("call")
    /\ ~AlreadyVisited(visited, Top.url)
    /\ ~RobotsDisallows(crawler.robots, Top.url)
    /\ visited' = MarkVisited(visited, Top.url)
    /\ gets' = [gets EXCEPT ![Top.url] = @ + 1]
    /\ recent' = recent \cup {Host(Top.url)}

\* What makes session.get or raise_for_status() raise a RequestException: a
\* connection error or timeout, or an answer with a 4xx or 5xx status.
FetchErrors == {"timeout", "403", "503"}

\* crawl(url): session.get raises or raise_for_status() raises
CrawlFetchError ==
    /\ CrawlIssuesGet
    /\ \E error \in FetchErrors : stack' = SetTop(Failed(Top, error))
    /\ UNCHANGED <<files, dl>>
    /\ CrawlCommon

\* crawl(url): the GET succeeds (stream=True: headers only)
CrawlFetch ==
    /\ CrawlIssuesGet
    /\ \E ctype \in ServerTypes(Top.url), cl \in ContentLengths :
          stack' = SetTop([Top EXCEPT !.pc = "fetched",
                                      !.resp = [ctype |-> ctype, cl |-> cl]])
    /\ UNCHANGED <<files, dl>>
    /\ CrawlCommon

\* crawl(url): neither a document nor text/html
CrawlOther ==
    /\ AtCrawl("fetched")
    /\ ~IsDocument(Top.resp.ctype, Top.url)
    /\ Top.resp.ctype # "text/html"
    /\ stack' = SetTop(Ended(Top, "skipped"))
    /\ UNCHANGED <<visited, gets, recent, files, dl>>
    /\ CrawlCommon

IsHtmlPage == AtCrawl("fetched") /\ ~IsDocument(Top.resp.ctype, Top.url)
                                 /\ Top.resp.ctype = "text/html"

\* crawl(url): text/html, BeautifulSoup raises
CrawlParseError ==
    /\ IsHtmlPage
    /\ stack' = SetTop(Failed(Top, "parse"))
    /\ UNCHANGED <<visited, gets, recent, files, dl>>
    /\ CrawlCommon

\* crawl(url): text/html parsed; _process_html_page sleeps and starts its loop
CrawlHtml ==
    /\ IsHtmlPage
    /\ \E links \in LinkSeqs(Top.url) :
          stack' = SetTop([Top EXCEPT !.pc = "links", !.links = links])
    /\ recent' = {}
    /\ UNCHANGED <<visited, gets, files, dl>>
    /\ CrawlCommon

\* 'pdf' in href.lower() or 'epub' in href.lower()
HrefHasKeyword(u) == u \in {"docA", "docB"}

IsDocumentLink(u) ==
    UrlEndsWith(u, ".pdf") \/ UrlEndsWith(u, ".epub") \/ HrefHasKeyword(u)

\* Crawler._is_internal, the hosts being root.org and other.org
IsInternal(base, u) == Host(u) = Host(base)

\* The collected document links of page f that have not been visited when its
\* later page link u is crawled, each paired with u.
Waiting(f, u) ==
    {<<f.document_links[i], u>> : i \in {j \in 1..Len(f.document_links) :
                                             ~AlreadyVisited(visited, f.document_links[j])}}

\* _process_html_page: one iteration of the loop over soup.select("a[href]")
ProcessLink ==
    /\ AtCrawl("links")
    /\ Top.links # <<>>
    /\ LET u == Head(Top.links)
           next == [Top EXCEPT !.links = Tail(@)]
       IN IF IsDocumentLink(u)
          THEN stack' = SetTop([next EXCEPT !.document_links = Append(@, u)])
          ELSE IF IsInternal(crawler.base_url, u) /\ ~AlreadyVisited(visited, u)
          THEN stack' = Append(SetTop([next EXCEPT !.overtaken = @ \cup Waiting(Top, u)]),
                               Frame(u))
          ELSE stack' = SetTop([next EXCEPT !.revisit = @ \/ AlreadyVisited(visited, u)])
    /\ UNCHANGED <<visited, gets, recent, files, dl>>
    /\ CrawlCommon

\* _process_html_page: urljoin(url, href) raises on the next anchor (a
\* malformed href such as "http://[x"); the exception leaves both loops and is
\* caught and logged by crawl(url), which returns.
ProcessLinkError ==
    /\ AtCrawl("links")
    /\ Top.links # <<>>
    /\ stack' = SetTop(Failed(Top, "parse"))
    /\ UNCHANGED <<visited, gets, recent, files, dl>>
    /\ CrawlCommon

\* _process_html_page: one iteration of the loop over document_links
ProcessDocumentLink ==
    /\ AtCrawl("links")
    /\ Top.links = <<>>
    /\ Top.document_links # <<>>
    /\ LET u == Head(Top.document_links)
           next == [Top EXCEPT !.document_links = Tail(@)]
       IN IF ~AlreadyVisited(visited, u)
          THEN stack' = Append(SetTop(next), Frame(u))
          ELSE stack' = SetTop([next EXCEPT !.revisit = TRUE])
    /\ UNCHANGED <<visited, gets, recent, files, dl>>
    /\ CrawlCommon

\* _process_html_page and crawl(url) return
PageDone ==
    /\ AtCrawl("links")
    /\ Top.links = <<>>
    /\ Top.document_links = <<>>
    /\ stack' = SetTop(Ended(Top, "expanded"))
    /\ UNCHANGED <<visited, gets, recent, files, dl>>
    /\ CrawlCommon

(***************************************************************************)
(* Crawler._download_file(url, response)                                   *)
(***************************************************************************)
IsStore == AtCrawl("fetched") /\ IsDocument(Top.resp.ctype, Top.url)

\* already downloaded with the declared size: return
StoreSkip ==
    /\ IsStore
    /\ AlreadyDownloaded(files, LocalPath(Top.url), Top.resp.cl)
    /\ stack' = SetTop(Ended(Top, "already downloaded"))
    /\ UNCHANGED <<visited, gets, recent, files, dl>>
    /\ CrawlCommon

\* open(temp_path, "wb") raises: logged, return
StoreOpenError ==
    /\ IsStore
    /\ ~AlreadyDownloaded(files, LocalPath(Top.url), Top.resp.cl)
    /\ stack' = SetTop(Failed(Top, "storage"))
    /\ UNCHANGED <<visited, gets, recent, files, dl>>
    /\ CrawlCommon

\* open(temp_path, "wb"): the temp file exists and is empty
StoreOpen ==
    /\ IsStore
    /\ ~AlreadyDownloaded(files, LocalPath(Top.url), Top.resp.cl)
    /\ \E body \in ServerBodies(Top.url) :
          dl' = [who |-> "crawler", url |-> Top.url, path |-> LocalPath(Top.url),
                 rest |-> body, downloaded |-> 0]
    /\ files' = WriteFile(files, StreamPath(LocalPath(Top.url)), EmptyFile(Top.url))
    /\ stack' = SetTop([Top EXCEPT !.pc = "download"])
    /\ UNCHANGED <<visited, gets, recent>>
    /\ CrawlCommon

\* f.write(chunk); downloaded += len(chunk)
WriteChunk(fs, p, chunk) == WriteFile(fs, p, [fs[p] EXCEPT !.data = Append(@, chunk)])

\* The stream was read to its end and the file closed.
CloseFile(fs, p) == WriteFile(fs, p, [fs[p] EXCEPT !.done = TRUE])

\* one iteration of the loop over response.iter_content
StoreChunk ==
    /\ AtCrawl("download")
    /\ dl.rest # <<>>
    /\ files' = WriteChunk(files, StreamPath(dl.path), Head(dl.rest))
    /\ dl' = [dl EXCEPT !.rest = Tail(@), !.downloaded = @ + 1]
    /\ UNCHANGED <<visited, gets, recent, stack>>
    /\ CrawlCommon

\* iter_content or f.write raises: the temp file is removed, the error logged
StoreStreamError ==
    /\ AtCrawl("download")
    /\ files' = IF Exists(files, StreamPath(dl.path))
                THEN RemoveFile(files, StreamPath(dl.path)) ELSE files
    /\ dl' = NoDownload
    /\ stack' = SetTop(Failed(Top, "stream"))
    /\ UNCHANGED <<visited, gets, recent>>
    /\ CrawlCommon

\* downloaded == 0: the temp file is removed
StoreEmpty ==
    /\ AtCrawl("download")
    /\ dl.rest = <<>>
    /\ dl.downloaded = 0
    /\ files' = RemoveFile(files, StreamPath(dl.path))
    /\ dl' = NoDownload
    /\ stack' = SetTop(Failed(Top, "empty"))
    /\ UNCHANGED <<visited, gets, recent>>
    /\ CrawlCommon

\* basename.endswith('.pdf') and not first_bytes.startswith(b'%PDF')
PdfMismatch(p, data) == Ext(p) = ".pdf" /\ (data = <<>> \/ Head(data) # "%PDF")

\* Mutant of StoreRename: a file that fails the signature check is removed and
\* the store fails.
StoreRenameRejecting ==
    /\ AtCrawl("download")
    /\ dl.rest = <<>>
    /\ dl.downloaded # 0
    /\ IF PdfMismatch(dl.path, files[StreamPath(dl.path)].data)
       THEN /\ files' = RemoveFile(files, StreamPath(dl.path))
            /\ stack' = SetTop(Failed(Top, "signature"))
       ELSE /\ files' = RenameFile(CloseFile(files, StreamPath(dl.path)),
                                   StreamPath(dl.path), dl.path)
            /\ stack' = SetTop(Ended(Top, "stored"))
    /\ dl' = NoDownload
    /\ UNCHANGED <<visited, gets, recent>>
    /\ CrawlCommon

\* the first bytes are checked (a warning only), then
\* os.rename(temp_path, local_path)
StoreRename ==
    /\ AtCrawl("download")
    /\ dl.rest = <<>>
    /\ dl.downloaded # 0
    /\ files' = RenameFile(CloseFile(files, StreamPath(dl.path)),
                           StreamPath(dl.path), dl.path)
    /\ dl' = NoDownload
    /\ stack' = SetTop([Ended(Top, "stored") EXCEPT
                           !.warned = PdfMismatch(dl.path, files[StreamPath(dl.path)].data)])
    /\ UNCHANGED <<visited, gets, recent>>
    /\ CrawlCommon

\* crawl(url) returns to its caller
CrawlReturn ==
    /\ AtCrawl("return")
    /\ stack' = Pop
    /\ UNCHANGED <<visited, gets, recent, files, dl>>
    /\ CrawlCommon

(***************************************************************************)
(* crawler.py __main__: the loop over TARGET_SITES.                        *)
(***************************************************************************)
MainCommon == UNCHANGED <<script, crawling_records, files, dl, docs, dcall, clock, xcall,
                          metadata_records, flow>>

AtSite ==
    /\ script = "crawler"
    /\ site <= Len(TARGET_SITES)
    /\ crawler = NoCrawler

\* test_url_accessibility(site) is False: the site is skipped
MainSkipSite ==
    /\ AtSite
    /\ site' = site + 1
    /\ UNCHANGED <<crawler, visited, stack, gets, recent>>
    /\ MainCommon

\* test_url_accessibility(site) is True: Crawler(site), then crawler.crawl()
MainStartCrawl ==
    /\ AtSite
    /\ \E rp \in ReadRobots :
          crawler' = [base_url |-> TARGET_SITES[site], robots |-> rp]
    /\ visited' = {}
    /\ gets' = ZeroGets
    /\ recent' = {}
    /\ stack' = <<Frame(TARGET_SITES[site])>>
    /\ UNCHANGED site
    /\ MainCommon

\* crawler.crawl() has returned: next site
MainNextSite ==
    /\ script = "crawler"
    /\ crawler # NoCrawler
    /\ stack = <<>>
    /\ crawler' = NoCrawler
    /\ site' = site + 1
    /\ UNCHANGED <<visited, stack, gets, recent>>
    /\ MainCommon

(***************************************************************************)
(* delta.py: the change-detection ledger.  docs is the table of delta.db,  *)
(* keyed by URL; dcall is the activation of process_url(url) under way.    *)
(***************************************************************************)
\* The download URLs of a metadata_records.jsonl left by earlier runs.
MetadataURLs == {"docA", "docB", "page"}

\* download_url.startswith("http"): every URL of the universe does; "file" is
\* the file:// URL that metadata.py writes when it knows no download URL.
StartsWithHttp(url) == url \in URLs

\* extract_urls_from_records(): the URLs that the ledger tracks.
DeltaURLs ==
    {r.download_url : r \in {x \in metadata_records : StartsWithHttp(x.download_url)}}

\* A Last-Modified header, None when the server sends none.
Tokens == {None, "T1", "T2"}

\* A NULL file_path.
NoPath == <<>>

\* hashlib.sha256 of a file's bytes, taken as collision free.
Sha256(data) ==
    CASE data = <<>>    -> "e3b0c442"
      [] data = <<"x">> -> "2d711642"
      [] data = <<"y">> -> "a1fce436"

\* sha256_file(path)
Sha256File(fs, p) == Sha256(fs[p].data)

NoRow == [present |-> FALSE]

\* SELECT last_modified, checksum, file_path FROM docs WHERE url=?
\* (with last_checked, which the properties compare)
Row(db, u) ==
    IF u \in DOMAIN db
    THEN [present |-> TRUE, last_modified |-> db[u].last_modified,
          checksum |-> db[u].checksum, file_path |-> db[u].file_path,
          last_checked |-> db[u].last_checked]
    ELSE NoRow

\* Mutant of Upsert: the written row replaces the whole table.
UpsertAlone(db, u, e) == [v \in {u} |-> e]

\* INSERT OR REPLACE INTO docs
Upsert(db, u, e) == [v \in (DOMAIN db) \cup {u} |-> IF v = u THEN e ELSE db[v]]

Entry(lm, checksum, path, now) ==
    [last_modified |-> lm, checksum |-> checksum, file_path |-> path, last_checked |-> now]

\* The filename of the re-download: the URL's basename when it ends in .pdf or
\* .epub, else <first 8 hex of sha256(url)>.pdf
DeltaFilename(u) ==
    LET b == Basename(u) IN
    IF b = <<>> \/ Ext(b) \notin {".pdf", ".epub"}
    THEN <<Fingerprint(u), ".pdf">>
    ELSE b

\* file_path = os.path.join(DOWNLOAD_DIR, filename)
DeltaPath(u) == DeltaFilename(u)

\* tmp_file_path = file_path + ".tmp"
DeltaTempPath(p) == p \o <<".tmp">>

\* Mutant of Decide: a token from the server means a download whenever a token
\* is stored, equal or not.
DecideTokenUncompared(row, current_lm, fs) ==
    IF row.present
    THEN IF current_lm # None /\ row.last_modified # None
         THEN [needs_download |-> TRUE, reason |-> "Last-Modified header changed"]
         ELSE IF current_lm = None
         THEN IF row.file_path # NoPath /\ Exists(fs, row.file_path)
              THEN IF Sha256File(fs, row.file_path) # row.checksum
                   THEN [needs_download |-> TRUE,
                         reason |-> "File checksum changed (no Last-Modified header)"]
                   ELSE [needs_download |-> FALSE, reason |-> ""]
              ELSE [needs_download |-> TRUE,
                    reason |-> "Local file missing or path incorrect (no Last-Modified header)"]
         ELSE IF row.last_modified = None /\ current_lm # None
         THEN [needs_download |-> TRUE, reason |-> "Server now provides Last-Modified header"]
         ELSE [needs_download |-> FALSE, reason |-> ""]
    ELSE [needs_download |-> TRUE, reason |-> "New URL (not in database)"]

\* Mutant of Decide: the hash fallback is taken only when no token is stored.
DecideStoredTokenSkips(row, current_lm, fs) ==
    IF row.present
    THEN IF current_lm # None /\ row.last_modified # None /\ current_lm # row.last_modified
         THEN [needs_download |-> TRUE, reason |-> "Last-Modified header changed"]
         ELSE IF current_lm = None /\ row.last_modified = None
         THEN IF row.file_path # NoPath /\ Exists(fs, row.file_path)
              THEN IF Sha256File(fs, row.file_path) # row.checksum
                   THEN [needs_download |-> TRUE,
                         reason |-> "File checksum changed (no Last-Modified header)"]
                   ELSE [needs_download |-> FALSE, reason |-> ""]
              ELSE [needs_download |-> TRUE,
                    reason |-> "Local file missing or path incorrect (no Last-Modified header)"]
         ELSE IF row.last_modified = None /\ current_lm # None
         THEN [needs_download |-> TRUE, reason |-> "Server now provides Last-Modified header"]
         ELSE [needs_download |-> FALSE, reason |-> ""]
    ELSE [needs_download |-> TRUE, reason |-> "New URL (not in database)"]

\* The decision of process_url: needs_download and its reason.
Decide(row, current_lm, fs) ==
    IF row.present
    THEN IF current_lm # None /\ row.last_modified # None /\ current_lm # row.last_modified
         THEN [needs_download |-> TRUE, reason |-> "Last-Modified header changed"]
         ELSE IF current_lm = None
         THEN IF row.file_path # NoPath /\ Exists(fs, row.file_path)
              THEN IF Sha256File(fs, row.file_path) # row.checksum
                   THEN [needs_download |-> TRUE,
                         reason |-> "File checksum changed (no Last-Modified header)"]
                   ELSE [needs_download |-> FALSE, reason |-> ""]
              ELSE [needs_download |-> TRUE,
                    reason |-> "Local file missing or path incorrect (no Last-Modified header)"]
         ELSE IF row.last_modified = None /\ current_lm # None
         THEN [needs_download |-> TRUE, reason |-> "Server now provides Last-Modified header"]
         ELSE [needs_download |-> FALSE, reason |-> ""]
    ELSE [needs_download |-> TRUE, reason |-> "New URL (not in database)"]

\* Mutant of FailedEntry: the failure handler writes NULLs.
FailedEntryWiped(row, now) == Entry(None, None, NoPath, now)

\* Mutant of SkipEntry: last_checked is not updated.
SkipEntryStale(row, now) ==
    Entry(row.last_modified, row.checksum, row.file_path, row.last_checked)

\* The row written when the URL is not accessible.
InaccessibleEntry(row, now) == Entry(None, None, NoPath, now)

\* The row written when the download fails.
FailedEntry(row, now) ==
    Entry(IF row.present THEN row.last_modified ELSE None,
          IF row.present THEN row.checksum ELSE None,
          IF row.present THEN row.file_path ELSE NoPath,
          now)

\* UPDATE docs SET last_checked = ? WHERE url = ?
SkipEntry(row, now) == Entry(row.last_modified, row.checksum, row.file_path, now)

\* The row written after a download.
DownloadedEntry(lm, checksum, path, now) == Entry(lm, checksum, path, now)

NoCall == [pc |-> "idle"]

\* process_url(url) at its finally clause: what it did (outcome), the row it
\* found (pre), the server's token (lm) and its decision.
Closing(u, outcome, pre, lm, decision) ==
    [pc |-> "closing", url |-> u, outcome |-> outcome, pre |-> pre, lm |-> lm,
     decision |-> decision]

DeltaCommon == UNCHANGED <<script, site, crawler, visited, stack, gets, recent,
                           crawling_records, xcall, metadata_records, flow>>

DeltaIdle ==
    /\ script = "delta"
    /\ dcall = NoCall
    /\ clock < MaxClock

\* process_url(url): check_url_modified reports a non-200 status or an error
DeltaInaccessible ==
    /\ DeltaIdle
    /\ \E u \in DeltaURLs :
          /\ docs' = Upsert(docs, u, InaccessibleEntry(Row(docs, u), clock + 1))
          /\ dcall' = Closing(u, "inaccessible", Row(docs, u), None, None)
    /\ clock' = clock + 1
    /\ UNCHANGED <<files, dl>>
    /\ DeltaCommon

\* process_url(url): no download needed
DeltaSkip ==
    /\ DeltaIdle
    /\ \E u \in DeltaURLs, lm \in Tokens :
          /\ ~Decide(Row(docs, u), lm, files).needs_download
          /\ docs' = Upsert(docs, u, SkipEntry(Row(docs, u), clock + 1))
          /\ dcall' = Closing(u, "skipped", Row(docs, u), lm, "skip")
    /\ clock' = clock + 1
    /\ UNCHANGED <<files, dl>>
    /\ DeltaCommon

\* process_url(url): download needed; requests.get, raise_for_status or
\* open(tmp_file_path, "wb") raises
DeltaGetError ==
    /\ DeltaIdle
    /\ \E u \in DeltaURLs, lm \in Tokens :
          /\ Decide(Row(docs, u), lm, files).needs_download
          /\ docs' = Upsert(docs, u, FailedEntry(Row(docs, u), clock + 1))
          /\ dcall' = Closing(u, "refetch_failed", Row(docs, u), lm, "refetch")
    /\ clock' = clock + 1
    /\ UNCHANGED <<files, dl>>
    /\ DeltaCommon

\* process_url(url): download needed; the GET succeeds and the temp file is opened
DeltaOpen ==
    /\ DeltaIdle
    /\ \E u \in DeltaURLs, lm \in Tokens, body \in Bodies :
          /\ Decide(Row(docs, u), lm, files).needs_download
          /\ files' = WriteFile(files, DeltaTempPath(DeltaPath(u)), EmptyFile(u))
          /\ dl' = [who |-> "delta", url |-> u, path |-> DeltaPath(u),
                    rest |-> body, downloaded |-> 0]
          /\ dcall' = [pc |-> "download", url |-> u, pre |-> Row(docs, u), lm |-> lm,
                       decision |-> "refetch"]
    /\ UNCHANGED <<docs, clock>>
    /\ DeltaCommon

AtDelta(pc) ==
    /\ script = "delta"
    /\ dcall.pc = pc

\* one iteration of the loop over response.iter_content
DeltaChunk ==
    /\ AtDelta("download")
    /\ dl.rest # <<>>
    /\ files' = WriteChunk(files, DeltaTempPath(dl.path), Head(dl.rest))
    /\ dl' = [dl EXCEPT !.rest = Tail(@), !.downloaded = @ + 1]
    /\ UNCHANGED <<docs, dcall, clock>>
    /\ DeltaCommon

DeltaFails ==
    /\ docs' = Upsert(docs, dcall.url, FailedEntry(dcall.pre, clock + 1))
    /\ dcall' = Closing(dcall.url, "refetch_failed", dcall.pre, dcall.lm, "refetch")
    /\ clock' = clock + 1
    /\ dl' = NoDownload
    /\ UNCHANGED files

\* iter_content or f.write raises
DeltaStreamError ==
    /\ AtDelta("download")
    /\ DeltaFails
    /\ DeltaCommon

\* downloaded == 0: ValueError("Downloaded file is empty.")
DeltaEmpty ==
    /\ AtDelta("download")
    /\ dl.rest = <<>>
    /\ dl.downloaded = 0
    /\ DeltaFails
    /\ DeltaCommon

\* Mutant of DeltaReplace: the byte count is not verified before the replace.
DeltaReplaceUnverified ==
    /\ AtDelta("download")
    /\ dl.rest = <<>>
    /\ files' = RenameFile(CloseFile(files, DeltaTempPath(dl.path)),
                           DeltaTempPath(dl.path), dl.path)
    /\ docs' = Upsert(docs, dcall.url,
                      DownloadedEntry(dcall.lm, Sha256File(files', dl.path), dl.path,
                                      clock + 1))
    /\ dcall' = Closing(dcall.url, "refetched", dcall.pre, dcall.lm, "refetch")
    /\ clock' = clock + 1
    /\ dl' = NoDownload
    /\ DeltaCommon

\* os.replace(tmp_file_path, file_path); sha256_file; INSERT OR REPLACE
DeltaReplace ==
    /\ AtDelta("download")
    /\ dl.rest = <<>>
    /\ dl.downloaded # 0
    /\ files' = RenameFile(CloseFile(files, DeltaTempPath(dl.path)),
                           DeltaTempPath(dl.path), dl.path)
    /\ docs' = Upsert(docs, dcall.url,
                      DownloadedEntry(dcall.lm, Sha256File(files', dl.path), dl.path,
                                      clock + 1))
    /\ dcall' = Closing(dcall.url, "refetched", dcall.pre, dcall.lm, "refetch")
    /\ clock' = clock + 1
    /\ dl' = NoDownload
    /\ DeltaCommon

\* finally: conn.close(); process_url returns
DeltaClose ==
    /\ AtDelta("closing")
    /\ dcall' = NoCall
    /\ UNCHANGED <<files, dl, docs, clock>>
    /\ DeltaCommon

\* Between two checks a stored file is deleted from the download directory by
\* its owner (the "Local file missing" case of process_url).
FileLost ==
    /\ script = "delta"
    /\ dcall = NoCall
    /\ \E u \in DeltaURLs :
          /\ Exists(files, DeltaPath(u))
          /\ files' = RemoveFile(files, DeltaPath(u))
    /\ UNCHANGED <<dl, docs, dcall, clock>>
    /\ DeltaCommon

DeltaNext ==
    \/ FileLost
    \/ DeltaInaccessible \/ DeltaSkip \/ DeltaGetError \/ DeltaOpen
    \/ DeltaChunk \/ DeltaStreamError \/ DeltaEmpty \/ DeltaReplace
    \/ DeltaClose

CrawlerNext ==
    \/ MainSkipSite \/ MainStartCrawl \/ MainNextSite
    \/ CrawlSkipped \/ CrawlFetchError \/ CrawlFetch
    \/ CrawlOther \/ CrawlParseError \/ CrawlHtml
    \/ ProcessLink \/ ProcessLinkError \/ ProcessDocumentLink \/ PageDone
    \/ StoreSkip \/ StoreOpenError \/ StoreOpen
    \/ StoreChunk \/ StoreStreamError \/ StoreEmpty \/ StoreRename
    \/ CrawlReturn

(***************************************************************************)
(* main.py: the workflow.  flow is the state of main(): the results of the *)
(* run_script calls that have returned and whether main() is still running *)
(* or has left with an exit status; script is the stage whose process is   *)
(* running ("main" once the workflow has ended).  A script started by      *)
(* itself has no workflow.  metadata_records is the content of             *)
(* output/metadata_records.jsonl.                                          *)
(***************************************************************************)
Stages == <<"crawler", "metadata", "extractor", "delta">>

NoFlow == [status |-> "none", ran |-> <<>>]

StageIndex(stage) == CHOOSE i \in 1..Len(Stages) : Stages[i] = stage

\* Mutant of AbortsWorkflow: a failure of the Text Extractor ends the workflow
\* too.
AbortsWorkflowOnExtractor(stage, ok) ==
    ~ok /\ stage \in {"crawler", "metadata", "extractor"}

\* if not run_script(...): sys.exit(1)
AbortsWorkflow(stage, ok) == ~ok /\ stage \in {"crawler", "metadata"}

\* run_script(stage) has returned ok: main() leaves with status 1, starts the
\* next stage, or ends after the last one.
RunScriptReturns(stage, ok) ==
    LET ends == AbortsWorkflow(stage, ok) \/ StageIndex(stage) = Len(Stages)
    IN /\ flow.status = "running"
       /\ script = stage
       /\ flow' = [status |-> IF AbortsWorkflow(stage, ok) THEN "exit 1"
                              ELSE IF ends THEN "exit 0" ELSE "running",
                   ran |-> Append(flow.ran, [stage |-> stage, ok |-> ok])]
       /\ script' = IF ends THEN "main" ELSE Stages[StageIndex(stage) + 1]

\* crawler.py has gone through TARGET_SITES and exits with code 0; its memory
\* goes with the process.
CrawlerExits ==
    /\ site > Len(TARGET_SITES)
    /\ crawler = NoCrawler
    /\ RunScriptReturns("crawler", TRUE)
    /\ visited' = {}
    /\ gets' = ZeroGets
    /\ recent' = {}
    /\ UNCHANGED <<site, crawler, stack, crawling_records, files, dl, docs, dcall, clock,
                   xcall, metadata_records>>

\* crawler.py cannot be started or fails when it is loaded: run_script returns
\* False.
CrawlerFails ==
    /\ site = 1
    /\ crawler = NoCrawler
    /\ RunScriptReturns("crawler", FALSE)
    /\ UNCHANGED <<site, crawler, visited, stack, gets, recent, crawling_records, files,
                   dl, docs, dcall, clock, xcall, metadata_records>>

\* [f for f in os.listdir(files_dir) if f.lower().endswith('.pdf')]
PdfFilesInDir(fs) == {p \in DOMAIN fs : p[Len(p)] = ".pdf"}

\* load_crawling_records_map().get(path): the last record of
\* crawling_records.json with this local_file_path, if there is one.
CrawlingInfo(records, p) ==
    LET is == {i \in 1..Len(records) :
                  /\ "local_file_path" \in DOMAIN records[i]
                  /\ records[i].local_file_path = p}
    IN IF is = {} THEN <<>>
       ELSE <<records[CHOOSE i \in is : \A j \in is : j <= i]>>

\* build_metadata_record: the fields of the record that delta.py reads.
BuildMetadataRecord(p, info) ==
    [download_url |-> IF "original_download_url" \in DOMAIN info
                      THEN info.original_download_url
                      ELSE "file"]

\* process_all_files(): one record for each PDF file that has a crawling
\* record; the other files are skipped.
ProcessAllFiles(fs, records) ==
    {BuildMetadataRecord(p, CrawlingInfo(records, p)[1]) :
        p \in {q \in PdfFilesInDir(fs) : CrawlingInfo(records, q) # <<>>}}

PipelineCommon ==
    UNCHANGED <<site, crawler, visited, stack, gets, recent, crawling_records, files,
                dl, docs, dcall, clock, xcall>>

\* metadata.py has processed the files and exits with code 0
MetadataExits ==
    /\ RunScriptReturns("metadata", TRUE)
    /\ metadata_records' = metadata_records \cup ProcessAllFiles(files, crawling_records)
    /\ PipelineCommon

\* metadata.py cannot be started or ends with an exception
MetadataFails ==
    /\ RunScriptReturns("metadata", FALSE)
    /\ UNCHANGED metadata_records
    /\ PipelineCommon

\* extractor.py exits, with code 0 or not
ExtractorExits ==
    /\ \E ok \in BOOLEAN : RunScriptReturns("extractor", ok)
    /\ UNCHANGED metadata_records
    /\ PipelineCommon

\* delta.py has called process_url for every URL of extract_urls_from_records()
\* and exits, with code 0 or not
DeltaExits ==
    /\ dcall = NoCall
    /\ DeltaURLs \subseteq DOMAIN docs
    /\ \E ok \in BOOLEAN : RunScriptReturns("delta", ok)
    /\ UNCHANGED metadata_records
    /\ PipelineCommon

WorkflowNext ==
    \/ CrawlerExits \/ CrawlerFails
    \/ MetadataExits \/ MetadataFails
    \/ ExtractorExits
    \/ DeltaExits

(***************************************************************************)
(* extractor.py: extract_text_from_pdf(pdf_path).  A text is a sequence of *)
(* characters; xcall is the activation of extract_text_from_pdf under way: *)
(* where it stands, and for each provider tried so far what the library    *)
(* did (raw) and what the provider function returned (result).             *)
(***************************************************************************)
\* The texts a library extracts from a document or from one of its pages.
Texts == {<<>>, <<" ">>, <<"a">>, <<" ", "a">>}

Whitespace == {" ", "\n"}

\* str.strip()
RECURSIVE LStrip(_)
LStrip(t) == IF t # <<>> /\ Head(t) \in Whitespace THEN LStrip(Tail(t)) ELSE t

RECURSIVE RStrip(_)
RStrip(t) ==
    IF t # <<>> /\ t[Len(t)] \in Whitespace THEN RStrip(SubSeq(t, 1, Len(t) - 1)) ELSE t

Strip(t) == RStrip(LStrip(t))

\* sep.join(texts)
RECURSIVE Join(_, _)
Join(sep, texts) ==
    IF texts = <<>> THEN <<>>
    ELSE IF Len(texts) = 1 THEN texts[1]
    ELSE texts[1] \o <<sep>> \o Join(sep, Tail(texts))

\* Optional[str]
NoText == [some |-> FALSE, text |-> <<>>, raised |-> FALSE]

SomeText(t) == [some |-> TRUE, text |-> t, raised |-> FALSE]

\* The call did not return: an exception left it.
Raised == [some |-> FALSE, text |-> <<>>, raised |-> TRUE]

\* text or None
OrNone(t) == IF t = <<>> THEN NoText ELSE SomeText(t)

\* What a library does when its provider calls it: the module is not installed
\* (HAS_... is False), the call raises, or it returns a text (PDFMiner) or the
\* outcomes of its pages (PyPDF2, OCR).
Unavailable == [kind |-> "unavailable"]

Raises == [kind |-> "raises"]

PdfMinerOutcomes ==
    {Unavailable, Raises} \cup {[kind |-> "text", text |-> t] : t \in Texts}

\* p.extract_text() of each page; None counts as "".
PyPdf2Outcomes ==
    {Unavailable, Raises}
        \cup {[kind |-> "pages", pages |-> ps] : ps \in SeqsUpTo(Texts, MaxPages)}

\* What happens to each page image: preprocess_image raises ("preprocess"),
\* pytesseract.image_to_string raises ("ocr"), or it returns a text ("").
PageOutcomes ==
    {[error |-> e, text |-> <<>>] : e \in {"preprocess", "ocr"}}
        \cup {[error |-> "", text |-> t] : t \in Texts}

OcrOutcomes ==
    {Unavailable, Raises}
        \cup {[kind |-> "pages", pages |-> ps] : ps \in SeqsUpTo(PageOutcomes, MaxPages)}

\* extract_text_pdfminer
ExtractTextPdfminer(raw) ==
    IF raw.kind = "text" THEN OrNone(Strip(raw.text)) ELSE NoText

\* extract_text_pypdf2
ExtractTextPypdf2(raw) ==
    IF raw.kind = "pages" THEN OrNone(Strip(Join("\n", raw.pages))) ELSE NoText

\* The stripped texts of the pages on which OCR found something.
RECURSIVE OcrTexts(_)
OcrTexts(pages) ==
    IF pages = <<>> THEN <<>>
    ELSE LET p == Head(pages)
             txt == Strip(p.text)
         IN (IF p.error = "" /\ txt # <<>> THEN <<txt>> ELSE <<>>) \o OcrTexts(Tail(pages))

\* extract_text_ocr: only the call of pytesseract is inside the page loop's
\* try, so an exception of preprocess_image leaves the function.
ExtractTextOcr(raw) ==
    IF raw.kind # "pages" THEN NoText
    ELSE IF \E i \in 1..Len(raw.pages) : raw.pages[i].error = "preprocess" THEN Raised
    ELSE OrNone(Join("\n", OcrTexts(raw.pages)))

\* if txt:
IsText(r) == r.some /\ r.text # <<>>

NoExtract == [pc |-> "idle"]

ExtractCommon ==
    UNCHANGED <<script, site, crawler, visited, stack, gets, recent, crawling_records,
                files, dl, docs, dcall, clock, metadata_records, flow>>

\* One provider was called: its exception leaves extract_text_from_pdf too,
\* its result is returned, or the next one is tried.
Tried(name, raw, r, next) ==
    LET tried == Append(xcall.tried, [name |-> name, raw |-> raw, result |-> r])
    IN IF r.raised
       THEN [pc |-> "raised", tried |-> tried, result |-> <<>>]
       ELSE IF IsText(r)
       THEN [pc |-> "done", tried |-> tried, result |-> r.text]
       ELSE IF next = "done"
       THEN [pc |-> "done", tried |-> tried, result |-> <<>>]
       ELSE [pc |-> next, tried |-> tried, result |-> <<>>]

\* 1) PDFMiner
TryPdfMiner ==
    /\ script = "extractor"
    /\ xcall.pc = "pdfminer"
    /\ \E raw \in PdfMinerOutcomes :
          xcall' = Tried("PDFMiner", raw, ExtractTextPdfminer(raw), "pypdf2")
    /\ ExtractCommon

\* 2) PyPDF2
TryPyPdf2 ==
    /\ script = "extractor"
    /\ xcall.pc = "pypdf2"
    /\ \E raw \in PyPdf2Outcomes :
          xcall' = Tried("PyPDF2", raw, ExtractTextPypdf2(raw), "ocr")
    /\ ExtractCommon

\* 3) OCR
TryOcr ==
    /\ script = "extractor"
    /\ xcall.pc = "ocr"
    /\ \E raw \in OcrOutcomes :
          xcall' = Tried("OCR", raw, ExtractTextOcr(raw), "done")
    /\ ExtractCommon

ExtractorNext == TryPdfMiner \/ TryPyPdf2 \/ TryOcr

Init ==
    /\ script \in {"crawler", "delta", "extractor"}
    /\ xcall = IF script = "extractor"
               THEN [pc |-> "pdfminer", tried |-> <<>>, result |-> <<>>]
               ELSE NoExtract
    /\ site = 1
    /\ crawler = NoCrawler
    /\ visited = {}
    /\ stack = <<>>
    /\ gets = ZeroGets
    /\ recent = {}
    /\ crawling_records = <<>>
    /\ files = <<>>
    /\ dl = NoDownload
    /\ docs = <<>>
    /\ dcall = NoCall
    /\ clock = 0
    /\ flow = IF script = "crawler" THEN [status |-> "running", ran |-> <<>>] ELSE NoFlow
    /\ metadata_records =
          IF script = "delta"
          THEN {[download_url |-> u] : u \in MetadataURLs \cup {"file"}}
          ELSE {}

Next == CrawlerNext \/ DeltaNext \/ ExtractorNext \/ WorkflowNext

Spec == Init /\ [][Next]_vars

(***************************************************************************)
(* Properties.                                                             *)
(***************************************************************************)
IsTemp(p) == p[Len(p)] = ".tmp"

FinalPaths == {p \in DOMAIN files : ~IsTemp(p)}

\* C1: at every point the file at a final path (any path that is not a ".tmp"
\* sibling) is a file whose download stream was read to its end; partial
\* content is found under ".tmp" names only.
C1_FinalPathHoldsCompleteFile ==
    \A p \in FinalPaths : files[p].done /\ files[p].data # <<>>

\* A re-download failed mid-stream next to the complete file of an earlier one.
C1_Witness ==
    /\ dcall.pc = "closing"
    /\ dcall.outcome = "refetch_failed"
    /\ Exists(files, DeltaPath(dcall.url))
    /\ Exists(files, DeltaTempPath(DeltaPath(dcall.url)))
    /\ ~files[DeltaTempPath(DeltaPath(dcall.url))].done

\* C2: within one Crawler instance a GET is issued at most once per URL, and
\* only for a URL that is already in the visited set.
C2_AtMostOneGetPerUrl ==
    \A u \in URLs : gets[u] <= 1 /\ (gets[u] = 1 => u \in visited)

\* A page that links back to an already fetched URL has been processed.
C2_Witness ==
    \E k \in 1..Len(stack) :
        /\ stack[k].revisit
        /\ stack[k].url # "seed"
        /\ gets["seed"] = 1
        /\ gets[stack[k].url] = 1

SameFields(e, row) ==
    /\ e.checksum = row.checksum
    /\ e.last_modified = row.last_modified
    /\ e.file_path = row.file_path

\* C3: for a URL that has an entry, every outcome of process_url other than a
\* successful re-download leaves checksum, last_modified and file_path as they
\* were.
C3_FieldsChangeOnlyOnRedownload ==
    (dcall.pc = "closing" /\ dcall.pre.present /\ dcall.outcome # "refetched")
        => SameFields(docs[dcall.url], dcall.pre)

\* C4: a failed re-download of a URL that has an entry leaves checksum,
\* last_modified and file_path as they were; only last_checked differs.
C4_FailedRefetchKeepsLastKnownGood ==
    (dcall.pc = "closing" /\ dcall.pre.present /\ dcall.outcome = "refetch_failed")
        => /\ SameFields(docs[dcall.url], dcall.pre)
           /\ docs[dcall.url].last_checked # dcall.pre.last_checked

\* A re-download failed for an entry that held a checksum, a token and a path.
C4_Witness ==
    /\ dcall.pc = "closing"
    /\ dcall.outcome = "refetch_failed"
    /\ dcall.pre.present
    /\ dcall.pre.checksum # None
    /\ dcall.pre.last_modified # None
    /\ dcall.pre.file_path # NoPath

\* C5: after process_url(url), whatever its outcome, the entry of url exists and
\* its last_checked is strictly later than before the call.
C5_LastCheckedAdvances ==
    dcall.pc = "closing"
        => /\ dcall.url \in DOMAIN docs
           /\ dcall.pre.present => docs[dcall.url].last_checked > dcall.pre.last_checked

\* A check of a URL that had an entry ended with the decision skip.
C5_Witness ==
    /\ dcall.pc = "closing"
    /\ dcall.pre.present
    /\ dcall.outcome = "skipped"

\* The decision of process_url can be read off the state: the download is under
\* way or the call ended without replacing a file.
DecisionTaken ==
    \/ dcall.pc = "download"
    \/ dcall.pc = "closing" /\ dcall.outcome \in {"skipped", "refetch_failed"}

FileMissing(row) == row.file_path = NoPath \/ ~Exists(files, row.file_path)

HashMismatch(row) == Sha256(files[row.file_path].data) # row.checksum

\* The five rules of the specification, in priority order.
FiveRulePolicy(row, lm) ==
    IF ~row.present THEN "refetch"
    ELSE IF row.last_modified = None /\ lm # None THEN "refetch"
    ELSE IF row.last_modified # None /\ lm # None /\ lm # row.last_modified THEN "refetch"
    ELSE IF row.last_modified = None /\ lm = None
    THEN IF FileMissing(row) THEN "refetch"
         ELSE IF HashMismatch(row) THEN "refetch" ELSE "skip"
    ELSE "skip"

\* C6 as stated: the decision is that of the five-rule policy, whose hash
\* fallback applies only when there is no token now nor previously.
C6_DecisionIsFiveRulePolicy ==
    DecisionTaken => dcall.decision = FiveRulePolicy(dcall.pre, dcall.lm)

\* The policy with the hash fallback taken whenever the server sends no token.
FallbackPolicy(row, lm) ==
    IF ~row.present THEN "refetch"
    ELSE IF row.last_modified = None /\ lm # None THEN "refetch"
    ELSE IF row.last_modified # None /\ lm # None /\ lm # row.last_modified THEN "refetch"
    ELSE IF lm = None
    THEN IF FileMissing(row) THEN "refetch"
         ELSE IF HashMismatch(row) THEN "refetch" ELSE "skip"
    ELSE "skip"

\* C6 amended: the decision is that of the policy whose fourth rule applies
\* whenever the server sends no token now, whether or not one is stored.
C6_DecisionIsFallbackPolicy ==
    DecisionTaken => dcall.decision = FallbackPolicy(dcall.pre, dcall.lm)

\* An entry with a stored token, no token from the server, and a stored file
\* that is missing or differs: decided refetch.
C6_Witness ==
    /\ DecisionTaken
    /\ dcall.pre.present
    /\ dcall.pre.last_modified # None
    /\ dcall.lm = None
    /\ dcall.pre.file_path # NoPath
    /\ dcall.decision = "refetch"

\* C7: _download_file invoked for a URL whose destination exists with the
\* declared Content-Length reads no byte of the body, creates no temp file and
\* leaves every file as it is.
C7_DuplicateSkip ==
    [][(/\ script = "crawler"
        /\ stack # <<>>
        /\ Top.pc = "fetched"
        /\ IsDocument(Top.resp.ctype, Top.url)
        /\ LocalPath(Top.url) \in DOMAIN files
        /\ Len(files[LocalPath(Top.url)].data) = Top.resp.cl)
          => (/\ files' = files
              /\ dl' = NoDownload
              /\ stack' = SetTop(Ended(Top, "already downloaded")))]_vars

\* A store has returned "already downloaded".
C7_Witness ==
    /\ stack # <<>>
    /\ Top.pc = "return"
    /\ Top.result = "already downloaded"
    /\ Exists(files, LocalPath(Top.url))
    /\ GetSize(files, LocalPath(Top.url)) = Top.resp.cl

\* C8: no store or re-download for one URL replaces the stored file of another:
\* the file at a URL's local path, in the crawler's store and in the ledger,
\* holds a response of that URL.
C8_StoredFileBelongsToItsUrl ==
    /\ \A u \in URLs : Exists(files, LocalPath(u)) => files[LocalPath(u)].src = u
    /\ \A u \in DOMAIN docs :
          (docs[u].file_path # NoPath /\ Exists(files, docs[u].file_path))
              => files[docs[u].file_path].src = u

Disallowed(u) == crawler # NoCrawler /\ ~CanFetch(crawler.robots, u)

\* C9: no GET is issued for a URL that robots.txt disallows; crawl(url) on such
\* a URL ends as skipped without fetching, storing or extracting links.
C9_NoGetWhenDisallowed ==
    \A u \in URLs : Disallowed(u) =>
        /\ gets[u] = 0
        /\ \A k \in 1..Len(stack) :
              (stack[k].url = u /\ stack[k].pc # "call")
                  => stack[k].pc = "return" /\ stack[k].result = "skipped"

\* crawl(url) on a URL that the rules of robots.txt disallow has returned.
C9_Witness ==
    /\ stack # <<>>
    /\ Top.pc = "return"
    /\ Top.result = "skipped"
    /\ crawler.robots.fetch = "200"
    /\ Top.url \in crawler.robots.rules
    /\ gets[Top.url] = 0

\* C10: when robots.txt cannot be retrieved (connection error, timeout, server
\* error) every URL is treated as allowed.
C10_PermissiveWhenUnreachable ==
    (crawler # NoCrawler /\ crawler.robots.fetch \in {"unreachable", "500"})
        => \A u \in URLs : CanFetch(crawler.robots, u)

\* The collected document links of an activation that were never handed to
\* crawl().
Dropped(f) ==
    {f.document_links[i] : i \in {j \in 1..Len(f.document_links) :
                                     ~AlreadyVisited(visited, f.document_links[j])}}

\* C11: a failure on one crawl target (fetch error, bad status, parse error,
\* storage error) leaves no file of that target's download behind and loses no
\* other target: when the failed activation returns, none of the document links
\* that were waiting has been dropped.
C11_FailureLosesNoPendingTarget ==
    \A k \in 1..Len(stack) :
        (stack[k].pc = "return" /\ stack[k].result = "failed")
            => /\ ~Exists(files, TempPath(LocalPath(stack[k].url)))
               /\ Dropped(stack[k]) = {}

\* The scope of a crawl: the hosts of the universe have no subdomains.
InScope(u) == Host(u) = Host(crawler.base_url)

\* The activation parsed its response as an HTML page.
Expanded(f) == f.pc = "links" \/ f.result = "expanded" \/ f.error = "parse"

\* C12: every URL that is fetched and expanded as an HTML page is the seed or
\* in scope; a link to another host is never followed as a page.
C12_ExpandedPagesAreInScope ==
    \A k \in 1..Len(stack) :
        Expanded(stack[k]) => stack[k].url = crawler.base_url \/ InScope(stack[k].url)

\* C13: the response of a URL that was classified as a document link is never
\* parsed as HTML and never has links extracted from it.
C13_DocumentLinksNeverParsedAsHtml ==
    \A k \in 2..Len(stack) : IsDocumentLink(stack[k].url) => ~Expanded(stack[k])

\* A step in which _download_file moves a download to its final path.
Acquired ==
    /\ script = "crawler"
    /\ stack # <<>>
    /\ Top.pc = "download"
    /\ stack' = SetTop(Ended(Top, "stored"))

\* C14: every successful document acquisition appends exactly one CrawlRecord,
\* for the downloaded URL, to the crawl log; no other step changes the log.
C14_AcquisitionAppendsOneCrawlRecord ==
    [][IF Acquired
       THEN /\ Len(crawling_records') = Len(crawling_records) + 1
            /\ SubSeq(crawling_records', 1, Len(crawling_records)) = crawling_records
            /\ crawling_records'[Len(crawling_records')].download_url = Top.url
       ELSE crawling_records' = crawling_records]_vars

\* C15: between two consecutive requests to one origin the politeness delay
\* occurs: no GET goes to an origin that was sent a request after the last
\* delay.
C15_DelayBetweenRequestsToOneOrigin ==
    [][\A u \in URLs : gets'[u] > gets[u] => Host(u) \notin recent]_vars

\* C16: within one origin, a link discovered before another is fetched before
\* it when both are fetched: no page link was fetched while a document link
\* found before it on the same page waited and was fetched afterwards.
C16_FetchedInDiscoveryOrder ==
    \A k \in 1..Len(stack) : \A pair \in stack[k].overtaken :
        Host(pair[1]) = Host(pair[2]) => ~(gets[pair[1]] = 1 /\ gets[pair[2]] = 1)

\* config.py: RETRY_ATTEMPTS
RETRY_ATTEMPTS == 3

\* The fetch errors that the specification retries.
Retryable == {"timeout", "503"}

\* C17: a fetch that fails with a network error, a timeout or a retryable status
\* is attempted again; the target fails only when the retry budget is spent,
\* and a 4xx other than 429 fails on its first attempt.
C17_RetryableFailureExhaustsBudget ==
    \A k \in 1..Len(stack) :
        stack[k].result = "failed" =>
            /\ stack[k].error \in Retryable => gets[stack[k].url] = RETRY_ATTEMPTS
            /\ stack[k].error = "403" => gets[stack[k].url] = 1

\* C18: after a failed store or re-download (an exception while streaming, a
\* write error, a zero-byte body) the ".tmp" file of that operation is gone, in
\* the crawler's store and in the ledger's re-download.
C18_NoTempFileAfterFailure ==
    [][/\ (/\ script = "crawler"
           /\ stack # <<>>
           /\ Top.pc = "download"
           /\ \E error \in {"stream", "empty"} : stack' = SetTop(Failed(Top, error)))
          => ~Exists(files', TempPath(dl.path))
       /\ (/\ script = "delta"
           /\ dcall.pc = "download"
           /\ dcall'.pc = "closing"
           /\ dcall'.outcome = "refetch_failed")
          => ~Exists(files', DeltaTempPath(dl.path))]_vars

\* The name of the stored file without a trailing ".tmp".
FinalName(p) == IF IsTemp(p) THEN SubSeq(p, 1, Len(p) - 1) ELSE p

\* The paths under which the crawler's store holds or is writing a download,
\* each with the URL it was computed for.
StoreNames ==
    {<<FinalName(p), files[p].src>> : p \in DOMAIN files}
        \cup (IF dl # NoDownload THEN {<<dl.path, dl.url>>} ELSE {})

NameOf(u) ==
    <<Fingerprint(u)>> \o
        (IF Len(Basename(u)) >= 2 THEN Basename(u) ELSE <<"document", ".pdf">>)

C20_SameTokenSkips ==
    [][(/\ script = "delta"
        /\ dcall = NoCall
        /\ dcall' # NoCall
        /\ dcall'.url \in DOMAIN docs
        /\ docs[dcall'.url].last_modified # None
        /\ dcall'.lm = docs[dcall'.url].last_modified)
          => (/\ dcall'.pc = "closing"
              /\ dcall'.outcome = "skipped"
              /\ files' = files
              /\ dl' = NoDownload
              /\ SameFields(docs'[dcall'.url], docs[dcall'.url])
              /\ docs'[dcall'.url].last_checked > docs[dcall'.url].last_checked)]_vars

\* A check found the stored token unchanged, the stored file being in place.
C20_Witness ==
    /\ dcall.pc = "closing"
    /\ dcall.outcome = "skipped"
    /\ dcall.pre.present
    /\ dcall.pre.last_modified # None
    /\ dcall.lm = dcall.pre.last_modified
    /\ Exists(files, dcall.pre.file_path)

\* C21: the ledger holds at most one entry per URL (the table is keyed by url)
\* and no step removes an entry: a URL that has an entry has one in every later
\* state.
C21_EntryNeverRemoved ==
    [][\A u \in DOMAIN docs : u \in DOMAIN docs']_vars

\* A check of a URL that had an entry ended while another URL had one too.
C21_Witness ==
    /\ dcall.pc = "closing"
    /\ dcall.pre.present
    /\ \E u \in DOMAIN docs : u # dcall.url

\* C22: every entry with a file_path and a checksum whose file exists has the
\* SHA-256 of that file's content as its checksum.
C22_ChecksumMatchesFile ==
    \A u \in DOMAIN docs :
        (/\ docs[u].file_path # NoPath
         /\ docs[u].checksum # None
         /\ Exists(files, docs[u].file_path))
            => Sha256File(files, docs[u].file_path) = docs[u].checksum

CrawlRunning == script = "crawler" /\ stack # <<>>

\* The steps an activation has left at most, not counting those of the
\* activations it will start for URLs that are not visited yet.
\* d is the download under way.
FrameWork(f, d) ==
    CASE f.pc = "call"     -> 2
      [] f.pc = "fetched"  -> 4 * MaxLinks + 3
      [] f.pc = "links"    -> 2 + 4 * Len(f.links) + 3 * Len(f.document_links)
      [] f.pc = "download" -> 2 + Len(d.rest)
      [] f.pc = "return"   -> 1

RECURSIVE StackWork(_, _)
StackWork(st, d) ==
    IF st = <<>> THEN 0 ELSE FrameWork(Head(st), d) + StackWork(Tail(st), d)

\* The terminal states of a target; a duplicate that is not downloaded again is
\* a skip.
Terminal == {"expanded", "stored", "skipped", "already downloaded", "failed"}

C24_FailureReportedOnce ==
    \A k \in 1..Len(stack) : stack[k].result = "failed" => stack[k].reports = 1

\* The class of a response by the specification's rule: a document by content
\* type or URL suffix (pdf, epub, doc, docx), else html, else other.
SpecClass(ctype, u) ==
    IF \/ ctype \in {"application/pdf", "application/epub+zip", "application/msword"}
       \/ \E suffix \in {".pdf", ".epub", ".doc", ".docx"} : UrlEndsWith(u, suffix)
    THEN "document"
    ELSE IF ctype = "text/html" THEN "html" ELSE "other"

\* How an activation treated its response.
Treated(f) ==
    IF \/ f.pc = "download"
       \/ f.result \in {"stored", "already downloaded"}
       \/ f.error \in {"storage", "stream", "empty"}
    THEN "document"
    ELSE IF Expanded(f) THEN "html" ELSE "other"

\* C25: every successful response is treated as exactly one of document, html,
\* other, by content type or URL suffix, where document covers pdf, epub, doc
\* and docx.
C25_ClassifiedByTypeOrSuffix ==
    \A k \in 1..Len(stack) :
        (stack[k].resp # NoResponse /\ stack[k].pc # "fetched")
            => Treated(stack[k]) = SpecClass(stack[k].resp.ctype, stack[k].url)

\* C26: a completely downloaded, non-empty ".pdf" file whose first bytes are not
\* the PDF signature is, unless an I/O error occurs, moved to its final name
\* with its content; the mismatch is flagged and nothing is removed.
C26_SignatureMismatchIsStored ==
    [][(/\ CrawlRunning
        /\ Top.pc = "download"
        /\ dl.rest = <<>>
        /\ dl.downloaded # 0
        /\ PdfMismatch(dl.path, files[TempPath(dl.path)].data)
        /\ stack'[Len(stack)].error # "stream")
          => (/\ Exists(files', dl.path)
              /\ files'[dl.path].data = files[TempPath(dl.path)].data
              /\ stack'[Len(stack)].result = "stored"
              /\ stack'[Len(stack)].warned)]_vars

\* docA was served as an error page and is stored under its ".pdf" name.
C26_Witness ==
    /\ CrawlRunning
    /\ Top.url = "docA"
    /\ Top.result = "stored"
    /\ Top.warned
    /\ Exists(files, LocalPath("docA"))
    /\ files[LocalPath("docA")].data = <<"x">>

\* The file at path p is the same before and after the step.
Untouched(p) ==
    /\ Exists(files', p) <=> Exists(files, p)
    /\ Exists(files, p) => files'[p] = files[p]

\* C27: a download of zero bytes is never placed under the final name: the
\* store or re-download ends as a failure and the file at the final path, if
\* any, keeps its content.
C27_EmptyDownloadNeverStored ==
    [][/\ (/\ CrawlRunning
           /\ Top.pc = "download"
           /\ dl.rest = <<>>
           /\ dl.downloaded = 0)
          => (stack'[Len(stack)].result = "failed" /\ Untouched(dl.path))
       /\ (/\ script = "delta"
           /\ dcall.pc = "download"
           /\ dl.rest = <<>>
           /\ dl.downloaded = 0)
          => (dcall'.outcome = "refetch_failed" /\ Untouched(dl.path))]_vars

\* The second crawler received an empty body for a document that the first one
\* had stored.
C27_Witness ==
    /\ CrawlRunning
    /\ Top.result = "failed"
    /\ Top.error = "empty"
    /\ Exists(files, LocalPath(Top.url))
    /\ files[LocalPath(Top.url)].data # <<>>

\* C28: every seed of the list is crawled, whatever the probe of the seed
\* returns: the loop moves past a seed only after a crawl of it.
C28_EverySeedIsCrawled ==
    [][site' # site => crawler # NoCrawler]_vars

\* The body that the download under way receives from the server.
ServedBody == files[DeltaTempPath(dl.path)].data \o dl.rest

\* C29: once a URL was downloaded and neither its header nor its content
\* changes on the server (and its stored file is in place), a later check
\* decides skip and downloads nothing.
C29_UnchangedUrlIsSkipped ==
    (/\ dcall.pc = "download"
     /\ dcall.pre.present
     /\ dcall.pre.checksum # None
     /\ dcall.pre.file_path # NoPath
     /\ Exists(files, dcall.pre.file_path))
        => ~(dcall.lm = dcall.pre.last_modified /\ Sha256(ServedBody) = dcall.pre.checksum)

\* C30: no link of a fetched and parsed page is dropped: an activation returns
\* only when every anchor of its page was handled and every collected document
\* link was passed on, whatever happened on an earlier link.
C30_NoLinkIsDropped ==
    \A k \in 1..Len(stack) :
        stack[k].pc = "return" => stack[k].links = <<>> /\ Dropped(stack[k]) = {}

\* The library found something other than whitespace.
RECURSIVE Chars(_)
Chars(texts) == IF texts = <<>> THEN {} ELSE {Head(texts)[i] : i \in 1..Len(Head(texts))}
                                             \cup Chars(Tail(texts))

NonBlank(t) == Chars(<<t>>) \ Whitespace # {}

YieldsText(name, raw) ==
    CASE raw.kind = "text" -> NonBlank(raw.text)
      [] raw.kind = "pages" /\ name = "PyPDF2" ->
            \E i \in 1..Len(raw.pages) : NonBlank(raw.pages[i])
      [] raw.kind = "pages" /\ name = "OCR" ->
            \E i \in 1..Len(raw.pages) :
                raw.pages[i].error = "" /\ NonBlank(raw.pages[i].text)
      [] OTHER -> FALSE

\* C33: extract_text_from_pdf tries PDFMiner, PyPDF2 and OCR in that order and
\* returns the result of the first that yields a text other than whitespace; no
\* provider is called after one succeeded, an unavailable or raising provider
\* yields nothing, and the result is empty exactly when all three yield
\* nothing.
C33_FirstProviderWithTextWins ==
    xcall.pc \in {"done", "raised"} =>
        LET t == xcall.tried
            n == Len(t)
        IN /\ xcall.pc = "done"
           /\ n \in 1..3
           /\ \A i \in 1..n : t[i].name = <<"PDFMiner", "PyPDF2", "OCR">>[i]
           /\ \A i \in 1..n : t[i].result.some <=> YieldsText(t[i].name, t[i].raw)
           /\ \A i \in 1..(n - 1) : ~t[i].result.some
           /\ t[n].result.some => xcall.result = t[n].result.text /\ xcall.result # <<>>
           /\ ~t[n].result.some => n = 3
           /\ xcall.result = <<>> <=> (n = 3 /\ \A i \in 1..3 : ~t[i].result.some)

\* A stage has started: its run_script call has returned or is under way.
Started(i) ==
    \/ i <= Len(flow.ran)
    \/ i = Len(flow.ran) + 1 /\ flow.status = "running"

StageFailed(i) == i <= Len(flow.ran) /\ ~flow.ran[i].ok

\* C32: the stages run one after another in the order Crawler, Metadata
\* Extractor, Text Extractor, Delta Processor; the Metadata Extractor starts
\* only if the Crawler succeeded, the Text Extractor and the Delta Processor
\* only if the Metadata Extractor succeeded (otherwise the workflow exits with
\* status 1 and no later stage runs), and a failure of the Text Extractor does
\* not keep the Delta Processor from running.
C32_StagesInOrderAndGated ==
    flow.status # "none" =>
        LET n == Len(flow.ran) IN
        /\ n <= Len(Stages)
        /\ \A i \in 1..n : flow.ran[i].stage = Stages[i]
        /\ flow.status = "running" <=> script # "main"
        /\ flow.status = "running" => n < Len(Stages) /\ script = Stages[n + 1]
        /\ Started(2) => flow.ran[1].ok
        /\ Started(3) \/ Started(4) => flow.ran[1].ok /\ flow.ran[2].ok
        /\ \A i \in {1, 2} : StageFailed(i) => flow.status = "exit 1" /\ n = i
        /\ flow.status = "exit 1" => StageFailed(1) \/ StageFailed(2)
        /\ Started(3) /\ flow.status # "running" => n = Len(Stages)
        /\ n >= 3 => Started(4)

\* The Text Extractor failed and the Delta Processor ran after it.
C32_Witness ==
    /\ flow.status = "exit 0"
    /\ Len(flow.ran) = 4
    /\ ~flow.ran[3].ok
    /\ flow.ran[4].stage = "delta"

\* C31: after a full run of the workflow in which the crawler stored a
\* document downloaded from URL U, the ledger has an entry for U.
C31_StoredDocumentsReachLedger ==
    (/\ flow.status = "exit 0"
     /\ \A i \in 1..Len(flow.ran) : flow.ran[i].ok)
        => \A u \in URLs : Exists(files, LocalPath(u)) => u \in DOMAIN docs

====
